---------------------------- MODULE Spec2Model ----------------------------
(***************************************************************************)
(* The redaction engine of simple_chat_demo.py (class SimpleSecureAI):     *)
(* pattern detection, masking and the per-instance entity memo table.      *)
(*                                                                         *)
(* A Python str is modelled as a sequence of one-character strings, so     *)
(* that slicing, lower(), split(), replace() and the regular expressions   *)
(* act on characters exactly as in the source.                             *)
(***************************************************************************)
EXTENDS Integers, Sequences, FiniteSets, TLC

(***************************************************************************)
(* Characters and str methods                                              *)
(***************************************************************************)
LowerLetters ==
  << "a","b","c","d","e","f","g","h","i","j","k","l","m",
     "n","o","p","q","r","s","t","u","v","w","x","y","z" >>

UpperLetters ==
  << "A","B","C","D","E","F","G","H","I","J","K","L","M",
     "N","O","P","Q","R","S","T","U","V","W","X","Y","Z" >>

Range(s) == { s[i] : i \in DOMAIN s }

LowerSet == Range(LowerLetters)

UpperSet == Range(UpperLetters)

Digits == { "0","1","2","3","4","5","6","7","8","9" }

\* \w of the re module (ASCII part): letters, digits and the underscore
WordChars == LowerSet \cup UpperSet \cup Digits \cup { "_" }

\* \s of the re module (ASCII part)
SpaceChars == { " ", "\t", "\n", "\r", "\f" }

LetterIndex(letters, c) == CHOOSE i \in DOMAIN letters : letters[i] = c

\* str.lower() on one character
LowerChar(c) == IF c \in UpperSet THEN LowerLetters[LetterIndex(UpperLetters, c)] ELSE c

\* str.upper() on one character
UpperChar(c) == IF c \in LowerSet THEN UpperLetters[LetterIndex(LowerLetters, c)] ELSE c

\* str.lower()
lower(s) == [ i \in DOMAIN s |-> LowerChar(s[i]) ]

\* str.upper()
upper(s) == [ i \in DOMAIN s |-> UpperChar(s[i]) ]

\* chr(n) for the code points 65..95
AsciiFromA ==
  UpperLetters \o << "[", "\\", "]", "^", "_" >>

chr(n) == AsciiFromA[n - 64]

\* s[:n] for n >= 0
Prefix(s, n) == SubSeq(s, 1, IF n < Len(s) THEN n ELSE Len(s))

\* s[-n:] for n > 0
Suffix(s, n) == SubSeq(s, IF Len(s) > n THEN Len(s) - n + 1 ELSE 1, Len(s))

\* s[i:] with i a 1-based index
From(s, i) == SubSeq(s, i, Len(s))

RECURSIVE SplitFrom(_, _, _, _)
\* str.split(sep) for a one-character separator: the pieces of s from index i on,
\* cur being the piece collected so far
SplitFrom(s, sep, i, cur) ==
  IF i > Len(s) THEN << cur >>
  ELSE IF s[i] = sep THEN << cur >> \o SplitFrom(s, sep, i + 1, << >>)
  ELSE SplitFrom(s, sep, i + 1, Append(cur, s[i]))

split(s, sep) == SplitFrom(s, sep, 1, << >>)

\* re.sub(r'\D', '', s): the digits of s
DigitsOf(s) == SelectSeq(s, LAMBDA c : c \in Digits)

Min(S) == CHOOSE x \in S : \A y \in S : x <= y

\* s.replace('', new): new before every character and at the end
Interleave(s, new) ==
  LET block == Len(new) + 1
  IN  [ j \in 1..((Len(s) + 1) * Len(new) + Len(s)) |->
          IF (j - 1) % block < Len(new) THEN new[((j - 1) % block) + 1]
          ELSE s[((j - 1) \div block) + 1] ]

\* the indices at which old occurs in s
Occurrences(s, old) ==
  { i \in 1..(Len(s) - Len(old) + 1) : SubSeq(s, i, i + Len(old) - 1) = old }

RECURSIVE ReplaceFrom(_, _, _, _, _)
\* s.replace(old, new) for a non-empty old, from index i on: the leftmost
\* non-overlapping occurrences of old in the string as it is, each replaced
ReplaceFrom(s, old, new, i, occ) ==
  LET next == { j \in occ : j >= i }
  IN  IF next = {} THEN From(s, i)
      ELSE SubSeq(s, i, Min(next) - 1) \o new
           \o ReplaceFrom(s, old, new, Min(next) + Len(old), occ)

\* str.replace(old, new)
replace(s, old, new) ==
  IF old = << >> THEN Interleave(s, new)
  ELSE ReplaceFrom(s, old, new, 1, Occurrences(s, old))

(***************************************************************************)
(* Regular expressions: a backtracking matcher in the order of the re      *)
(* module.  A match state is [pos, gs, ge]: the next index to read and the *)
(* span [gs, ge) of capture group 1 (gs = 0: the group took no part).      *)
(* Match returns the states after a match of r in the order in which       *)
(* backtracking tries them, so the head is the match re reports.           *)
(***************************************************************************)
Cls(S) == [ op |-> "cls", set |-> S ]

Lit(c) == Cls({ c })

WB == [ op |-> "wb" ]

Cat(parts) == [ op |-> "cat", parts |-> parts ]

Alt(parts) == [ op |-> "alt", parts |-> parts ]

\* r{min,max}, greedy; max = -1 is no upper limit
Rep(r, min, max) == [ op |-> "rep", r |-> r, min |-> min, max |-> max ]

Opt(r) == Rep(r, 0, 1)

Grp(r) == [ op |-> "grp", r |-> r ]

Word(s) == Cat([ i \in DOMAIN s |-> Lit(s[i]) ])

\* re.IGNORECASE: a character matches a class when either of its cases is in it
InClass(c, S) == c \in S \/ LowerChar(c) \in S \/ UpperChar(c) \in S

IsWordAt(t, p) == p >= 1 /\ p <= Len(t) /\ t[p] \in WordChars

\* \b between index p - 1 and index p
WordBoundary(t, p) == IsWordAt(t, p - 1) # IsWordAt(t, p)

RECURSIVE Match(_, _, _)
RECURSIVE MatchAll(_, _, _, _)
RECURSIVE MatchCat(_, _, _, _)
RECURSIVE MatchAlt(_, _, _, _)
RECURSIVE MatchRep(_, _, _, _, _)
RECURSIVE RepAll(_, _, _, _, _, _)

\* the matches of r from each state of ms (from index i on), in order
MatchAll(r, t, ms, i) ==
  IF i > Len(ms) THEN << >>
  ELSE Match(r, t, ms[i]) \o MatchAll(r, t, ms, i + 1)

MatchCat(parts, i, t, ms) ==
  IF i > Len(parts) \/ ms = << >> THEN ms
  ELSE MatchCat(parts, i + 1, t, MatchAll(parts[i], t, ms, 1))

MatchAlt(parts, i, t, m) ==
  IF i > Len(parts) THEN << >>
  ELSE Match(parts[i], t, m) \o MatchAlt(parts, i + 1, t, m)

\* r{min,max} continued from each state of once (from index i on), in order
RepAll(r, min, max, t, once, i) ==
  IF i > Len(once) THEN << >>
  ELSE MatchRep(r, min, max, t, once[i]) \o RepAll(r, min, max, t, once, i + 1)

\* greedy: first one more r (that consumed something) and the rest, then none
MatchRep(r, min, max, t, m) ==
  (IF max = 0 THEN << >>
   ELSE RepAll(r, min - 1, IF max < 0 THEN max ELSE max - 1, t,
               SelectSeq(Match(r, t, m), LAMBDA x : x.pos > m.pos), 1))
  \o (IF min <= 0 THEN << m >> ELSE << >>)

\* the states of inner with group 1 set to the span from m
Captured(m, inner) ==
  [ k \in DOMAIN inner |-> [ inner[k] EXCEPT !.gs = m.pos, !.ge = inner[k].pos ] ]

Match(r, t, m) ==
  CASE r.op = "cls" ->
         IF m.pos <= Len(t) /\ InClass(t[m.pos], r.set)
         THEN << [ m EXCEPT !.pos = m.pos + 1 ] >> ELSE << >>
    [] r.op = "wb"  -> IF WordBoundary(t, m.pos) THEN << m >> ELSE << >>
    [] r.op = "cat" -> MatchCat(r.parts, 1, t, << m >>)
    [] r.op = "alt" -> MatchAlt(r.parts, 1, t, m)
    [] r.op = "rep" -> MatchRep(r.r, r.min, r.max, t, m)
    [] r.op = "grp" -> Captured(m, Match(r.r, t, m))

RECURSIVE HasGroup(_)
\* whether the pattern has a capture group (re.findall then returns the group)
HasGroup(r) ==
  CASE r.op = "grp" -> TRUE
    [] r.op = "rep" -> HasGroup(r.r)
    [] r.op \in { "cat", "alt" } -> \E i \in DOMAIN r.parts : HasGroup(r.parts[i])
    [] OTHER -> FALSE

\* the matches of r in t that start at index p, in backtracking order
MatchAt(r, t, p) == Match(r, t, [ pos |-> p, gs |-> 0, ge |-> 0 ])

RECURSIVE FindAllFrom(_, _, _, _)
RECURSIVE FindAllAt(_, _, _, _, _)

\* re.findall(pattern, text) from index p on: scan left to right; after a match
\* resume at its end.  starts: the indices at which r matches.
FindAllFrom(r, t, p, starts) ==
  IF \A q \in starts : q < p THEN << >>
  ELSE FindAllAt(r, t, Min({ q \in starts : q >= p }), starts,
                 MatchAt(r, t, Min({ q \in starts : q >= p }))[1])

\* the match m of r at index q and the matches after it.  An item is
\* [value, start, end]: what findall returns for the match (group 1 when the
\* pattern has a group, '' when the group took no part), and the span
\* [start, end) of the whole match (which findall does not return).
FindAllAt(r, t, q, starts, m) ==
  << [ value |-> IF HasGroup(r)
                 THEN (IF m.gs = 0 THEN << >> ELSE SubSeq(t, m.gs, m.ge - 1))
                 ELSE SubSeq(t, q, m.pos - 1),
       start |-> q, end |-> m.pos ] >>
  \o FindAllFrom(r, t, IF m.pos > q THEN m.pos ELSE q + 1, starts)

findall(r, t) ==
  FindAllFrom(r, t, 1, { q \in 1..(Len(t) + 1) : MatchAt(r, t, q) # << >> })

(***************************************************************************)
(* SimpleSecureAI.patterns and detect_entities                             *)
(***************************************************************************)
T_email == << "e","m","a","i","l" >>

T_phone == << "p","h","o","n","e" >>

T_ssn == << "s","s","n" >>

T_credit_card == << "c","r","e","d","i","t","_","c","a","r","d" >>

T_api_key == << "a","p","i","_","k","e","y" >>

T_name == << "n","a","m","e" >>

Digit == Cls(Digits)

\* [-.\s]?
OptSep == Opt(Cls({ "-", "." } \cup SpaceChars))

\* \b[A-Za-z0-9._%+-]+@[A-Za-z0-9.-]+\.[A-Z|a-z]{2,}\b
EmailPattern ==
  Cat(<< WB,
         Rep(Cls(LowerSet \cup UpperSet \cup Digits \cup { ".", "_", "%", "+", "-" }), 1, -1),
         Lit("@"),
         Rep(Cls(LowerSet \cup UpperSet \cup Digits \cup { ".", "-" }), 1, -1),
         Lit("."),
         Rep(Cls(UpperSet \cup { "|" } \cup LowerSet), 2, -1),
         WB >>)

\* \b(\+\d{1,3}[-.\s]?)?\(?\d{3}\)?[-.\s]?\d{3}[-.\s]?\d{4}\b
PhonePattern ==
  Cat(<< WB,
         Opt(Grp(Cat(<< Lit("+"), Rep(Digit, 1, 3), OptSep >>))),
         Opt(Lit("(")), Rep(Digit, 3, 3), Opt(Lit(")")), OptSep,
         Rep(Digit, 3, 3), OptSep, Rep(Digit, 4, 4),
         WB >>)

\* \b\d{3}-\d{2}-\d{4}\b
SsnPattern ==
  Cat(<< WB, Rep(Digit, 3, 3), Lit("-"), Rep(Digit, 2, 2), Lit("-"), Rep(Digit, 4, 4), WB >>)

\* \b\d{4}[-.\s]?\d{4}[-.\s]?\d{4}[-.\s]?\d{4}\b
CreditCardPattern ==
  Cat(<< WB, Rep(Digit, 4, 4), OptSep, Rep(Digit, 4, 4), OptSep,
         Rep(Digit, 4, 4), OptSep, Rep(Digit, 4, 4), WB >>)

\* \b(sk-|pk-|ghp_|gho_|ghu_|ghs_|ghr_)[a-zA-Z0-9]{20,}\b
ApiKeyPattern ==
  Cat(<< WB,
         Grp(Alt(<< Word(<< "s","k","-" >>), Word(<< "p","k","-" >>),
                    Word(<< "g","h","p","_" >>), Word(<< "g","h","o","_" >>),
                    Word(<< "g","h","u","_" >>), Word(<< "g","h","s","_" >>),
                    Word(<< "g","h","r","_" >>) >>)),
         Rep(Cls(LowerSet \cup UpperSet \cup Digits), 20, -1),
         WB >>)

\* \b[A-Z][a-z]+ [A-Z][a-z]+\b
NamePattern ==
  Cat(<< WB, Cls(UpperSet), Rep(Cls(LowerSet), 1, -1), Lit(" "),
         Cls(UpperSet), Rep(Cls(LowerSet), 1, -1), WB >>)

\* self.patterns, in the dict's (insertion) order
patterns ==
  << [ type |-> T_email,       re |-> EmailPattern ],
     [ type |-> T_phone,       re |-> PhonePattern ],
     [ type |-> T_ssn,         re |-> SsnPattern ],
     [ type |-> T_credit_card, re |-> CreditCardPattern ],
     [ type |-> T_api_key,     re |-> ApiKeyPattern ],
     [ type |-> T_name,        re |-> NamePattern ] >>

\* the entities appended for the matches of one pattern.  An entity is
\* [type, value, start, end]; start and end are the span of the regex match the
\* entity came from, which the code itself does not keep ('confidence' is the
\* constant 0.9 and is left out).
EntitiesOf(entity_type, matches) ==
  [ k \in DOMAIN matches |->
      [ type |-> entity_type, value |-> matches[k].value,
        start |-> matches[k].start, end |-> matches[k].end ] ]

RECURSIVE DetectFrom(_, _)
\* the loop of detect_entities over the patterns from the i-th on
DetectFrom(text, i) ==
  IF i > Len(patterns) THEN << >>
  ELSE EntitiesOf(patterns[i].type, findall(patterns[i].re, text)) \o DetectFrom(text, i + 1)

detect_entities(text) == DetectFrom(text, 1)

(***************************************************************************)
(* The messages and arguments the callers use                              *)
(***************************************************************************)
\* the number of fragments of a message
MaxFragments == 2

\* the number of calls made in one run
MaxCalls == 2

\* the SimpleSecureAI instances (one per scope)
Scopes == { "s1", "s2" }

F_to == << "t","o" >>

F_name == << "J","o","h","n"," ","S","m","i","t","h" >>

F_email == << "j","o","h","n","@","x",".","c","o","m" >>

F_ssn == << "1","2","3","-","4","5","-","6","7","8","9" >>

F_ssn2 == << "9","8","7","-","6","5","-","4","3","2","1" >>

\* an identifier that ends in the digits of F_ssn
F_id == << "i","d" >> \o F_ssn

F_api_key == << "s","k","-","a","b","c","d","e","f","g","h","i","j",
                "0","1","2","3","4","5","6","7","8","9" >>

\* the pieces of the callers' messages
Fragments == { F_to, F_name, F_email, F_ssn, F_id, F_api_key }

RECURSIVE JoinFrom(_, _)
\* the fragments from the i-th on, separated by one space
JoinFrom(ws, i) ==
  IF i > Len(ws) THEN << >>
  ELSE IF i = Len(ws) THEN ws[i]
  ELSE ws[i] \o << " " >> \o JoinFrom(ws, i + 1)

\* a message of white space only
F_blank == << " ", " " >>

\* the messages given to redact_content: the empty one, the blank one and the
\* fragments joined
Texts ==
  { JoinFrom(ws, 1) : ws \in UNION { [ 1..n -> Fragments ] : n \in 0..MaxFragments } }
    \cup { F_blank }

T_address == << "a","d","d","r","e","s","s" >>

F_name2 == << "J","a","n","e"," ","D","o","e" >>

F_phone == << "5","5","5","-","1","2","3","-","4","5","6","7" >>

F_credit_card == << "4","1","1","1","-","1","1","1","1","-","1","1","1","1","-","1","1","1","1" >>

F_street == << "M","a","i","n"," ","S","t","r","e","e","t" >>

\* an api key of 8 characters
F_short_key == << "s","k","-","1","2","3","4","5" >>

\* a card number of 4 characters
F_short_card == << "1","1","1","1" >>

\* the number of F_phone written with brackets and a space
F_phone2 == << "(","5","5","5",")"," ","1","2","3","-","4","5","6","7" >>

\* an api key that differs from F_api_key in letter case only
F_api_key_upper == << "s","k","-" >> \o upper(From(F_api_key, 4))

\* the (entity_type, value) arguments given to get_or_create_mapping; F_name as an
\* email is a value without '@'
Lookups ==
  { << T_name, F_name >>, << T_name, F_name2 >>, << T_email, F_email >>,
    << T_email, F_name >>, << T_phone, F_phone >>, << T_ssn, F_ssn >>,
    << T_ssn, F_ssn2 >>, << T_credit_card, F_credit_card >>,
    << T_api_key, F_api_key >>, << T_address, F_street >>,
    << T_api_key, F_short_key >>, << T_credit_card, F_short_card >>,
    << T_phone, F_phone2 >>, << T_api_key, F_api_key_upper >> }

\* detect_entities on the messages, computed once per message
DetectTable == [ t \in Texts |-> detect_entities(t) ]

\* self.detect_entities(content)
Detected(content) ==
  IF content \in Texts THEN DetectTable[content] ELSE detect_entities(content)

(***************************************************************************)
(* SimpleSecureAI.get_or_create_mapping and redact_content                 *)
(***************************************************************************)
Person == << "P","e","r","s","o","n"," " >>

\* an empty dict
EmptyMap == [ k \in {} |-> << >> ]

\* the key of the memo table: f"{entity_type}:{value.lower()}"
MemoKey(entity_type, value) == entity_type \o << ":" >> \o lower(value)

\* the last four characters kept, as for a credit card
ssn_mask_KeepLast4(value) == << "*","*","*","-","*","*","-" >> \o Suffix(value, 4)

\* line 64: masked_value = "***-**-****"
ssn_mask(value) == << "*","*","*","-","*","*","-","*","*","*","*" >>

\* the masked value of lines 55-70: [raised, val].  raised: the statement
\* "username, domain = value.split('@')" raises ValueError unless the split
\* yields exactly two parts.
masked_value(entity_type, value, counter) ==
  CASE entity_type = T_name ->
         [ raised |-> FALSE, val |-> Person \o << chr(64 + counter) >> ]
    [] entity_type = T_email ->
         LET parts == split(value, "@")
         IN  IF Len(parts) # 2 THEN [ raised |-> Len(parts) # 2, val |-> << >> ]
             ELSE LET username == parts[1]
                      domain   == parts[2]
                      labels   == split(domain, ".")
                  IN  [ raised |-> FALSE,
                        val |-> Prefix(username, 2) \o << "*","*","@" >>
                                \o Prefix(domain, 2) \o << "*","*","@" >>
                                \o labels[Len(labels)] ]
    [] entity_type = T_phone ->
         LET digits == DigitsOf(value)
         IN  [ raised |-> FALSE,
               val |-> Prefix(digits, 2) \o << "*","*","-","*","*","-" >> \o Suffix(digits, 4) ]
    [] entity_type = T_ssn ->
         [ raised |-> FALSE, val |-> ssn_mask(value) ]
    [] entity_type = T_credit_card ->
         [ raised |-> FALSE,
           val |-> << "*","*","*","*","-","*","*","*","*","-","*","*","*","*","-" >>
                   \o Suffix(value, 4) ]
    [] entity_type = T_api_key ->
         [ raised |-> FALSE,
           val |-> Prefix(value, 4) \o << "*","*","*","*","*","*","*","*","*","*" >>
                   \o Suffix(value, 4) ]
    [] OTHER ->
         [ raised |-> FALSE, val |-> << "[" >> \o upper(entity_type) \o << "]" >> ]

\* a dict that holds the new entry only
DictSet_Fresh(d, key, val) == [ k \in { key } |-> val ]

\* self.entity_mappings[key] = masked_value
DictSet(d, key, val) == [ k \in DOMAIN d \cup { key } |-> IF k = key THEN val ELSE d[k] ]

\* the mapping made whether or not the key is in the table
Mapped_NoLookup(m, c, key, mv) ==
  IF mv.raised
  THEN [ mappings |-> m, counter |-> c, raised |-> TRUE, ret |-> << >> ]
  ELSE [ mappings |-> DictSet(m, key, mv.val), counter |-> c + 1, raised |-> FALSE,
         ret |-> mv.val ]

\* the counter left as it is
Mapped_NoIncrement(m, c, key, mv) ==
  IF key \in DOMAIN m
  THEN [ mappings |-> m, counter |-> c, raised |-> FALSE, ret |-> m[key] ]
  ELSE IF mv.raised
  THEN [ mappings |-> m, counter |-> c, raised |-> TRUE, ret |-> << >> ]
  ELSE [ mappings |-> DictSet(m, key, mv.val), counter |-> c, raised |-> FALSE,
         ret |-> mv.val ]

\* lines 54-75 with masked_value computed (mv) where the key is not in the table
Mapped(m, c, key, mv) ==
  IF key \in DOMAIN m
  THEN [ mappings |-> m, counter |-> c, raised |-> FALSE, ret |-> m[key] ]
  ELSE IF mv.raised
  THEN [ mappings |-> m, counter |-> c, raised |-> TRUE, ret |-> << >> ]
  ELSE [ mappings |-> DictSet(m, key, mv.val), counter |-> c + 1, raised |-> FALSE,
         ret |-> DictSet(m, key, mv.val)[key] ]

\* get_or_create_mapping on an instance whose entity_mappings is m and whose
\* entity_counter is c: the instance's fields after the call, whether the call
\* raised, and the value it returned
get_or_create_mapping(m, c, entity_type, value) ==
  Mapped(m, c, MemoKey(entity_type, value), masked_value(entity_type, value, c))

RECURSIVE InsertByLen(_, _)
\* insert e into a list sorted by descending len(value), after the entries that
\* are at least as long (list.sort is stable)
InsertByLen(sorted, e) ==
  IF sorted = << >> THEN << e >>
  ELSE IF Len(Head(sorted).value) >= Len(e.value)
       THEN << Head(sorted) >> \o InsertByLen(Tail(sorted), e)
       ELSE << e >> \o sorted

RECURSIVE SortByLen(_, _)
\* entities.sort(key=lambda x: len(x['value']), reverse=True)
SortByLen(entities, n) ==
  IF n = 0 THEN << >> ELSE InsertByLen(SortByLen(entities, n - 1), entities[n])

RECURSIVE RedactLoop(_, _, _, _, _, _)
RECURSIVE LoopBody(_, _, _, _, _)

\* the for loop of redact_content from the k-th entity on; returns lists the
\* (type, value, ret) of each get_or_create_mapping call made so far
RedactLoop(entities, k, m, c, text, returns) ==
  IF k > Len(entities)
  THEN [ mappings |-> m, counter |-> c, raised |-> FALSE, text |-> text, returns |-> returns ]
  ELSE LoopBody(entities, k, text, returns,
                get_or_create_mapping(m, c, entities[k].type, entities[k].value))

\* the loop body for the k-th entity, r being what get_or_create_mapping did
LoopBody(entities, k, text, returns, r) ==
  IF r.raised
  THEN [ mappings |-> r.mappings, counter |-> r.counter, raised |-> TRUE,
         text |-> text, returns |-> returns ]
  ELSE RedactLoop(entities, k + 1, r.mappings, r.counter,
                  replace(text, entities[k].value, r.ret),
                  Append(returns, [ type |-> entities[k].type,
                                    value |-> entities[k].value, ret |-> r.ret ]))

\* the dict object that is self.entity_mappings itself
copy_SameObject(d) == [ owner |-> "self", items |-> d ]

\* self.entity_mappings.copy(): a new dict object with the items of d.  owner
\* tells whose object the dict is: "caller" for an object only the caller of
\* redact_content holds, "self" for the object the instance keeps
copy(d) == [ owner |-> "caller", items |-> d ]

\* the dict returned by redact_content, and the instance's fields after the loop
Returned(content, entities, done) ==
  [ mappings |-> done.mappings, counter |-> done.counter, raised |-> done.raised,
    returns |-> done.returns,
    report |-> [ original_content  |-> content,
                 redacted_content  |-> done.text,
                 detected_entities |-> entities,
                 entity_mappings   |-> copy(done.mappings) ] ]

\* redact_content after detect_entities and the sort
Redacted(m, c, content, entities) ==
  Returned(content, entities, RedactLoop(entities, 1, m, c, content, << >>))

\* detect_entities(content), sorted as in line 83
SortedEntities(detected) == SortByLen(detected, Len(detected))

\* redact_content on an instance whose fields are m and c: the fields after the
\* call, whether it raised, and the returned dict
redact_content(m, c, content) ==
  Redacted(m, c, content, SortedEntities(Detected(content)))

(***************************************************************************)
(* The instances and their callers                                         *)
(***************************************************************************)
\* the endpoints for which the MCP tools record durations
Endpoints == { "/redact_content", "/get_supported_formats", "/health_check", "/get_metrics" }

VARIABLES
  entity_mappings,  \* entity_mappings[i]: self.entity_mappings of instance i
  entity_counter,   \* entity_counter[i]: self.entity_counter of instance i
  last,             \* the last call made: its arguments and what it returned
  issued,           \* issued[i]: (type, value) -> the first token returned for it
  calls,            \* the number of calls made
  thr,              \* thr[t]: thread t inside get_or_create_mapping of instance "s1",
                    \* or inside a tool of the MCP server
  client,           \* the last call of the SDK client and what it did
  active_connections, \* the global active_connections of the MCP server
  gauge,            \* the value of the ACTIVE_CONNECTIONS gauge
  durations,        \* durations[e]: the observations of REQUEST_DURATION for endpoint e
  tool,             \* the last MCP tool call and what it returned
  service_calls     \* the number of client and tool calls made

\* the variables of the SDK client and of the MCP server
svars == << client, active_connections, gauge, durations, tool, service_calls >>

vars == << entity_mappings, entity_counter, last, issued, calls, thr, svars >>

\* the threads that share instance "s1"
Threads == { "t1", "t2" }

Idle == [ pc |-> "idle" ]

\* SimpleSecureAI.__init__, once per instance
Init ==
  /\ entity_mappings = [ i \in Scopes |-> EmptyMap ]
  /\ entity_counter = [ i \in Scopes |-> 1 ]
  /\ last = [ op |-> "none" ]
  /\ issued = [ i \in Scopes |-> EmptyMap ]
  /\ calls = 0
  /\ thr = [ t \in Threads |-> Idle ]
  /\ client = [ op |-> "none" ]
  /\ active_connections = 0
  /\ gauge = 0
  /\ durations = [ e \in Endpoints |-> 0 ]
  /\ tool = [ op |-> "none" ]
  /\ service_calls = 0

\* the field kept once for all instances
SelfSet_Shared(field, i, v) == [ j \in DOMAIN field |-> v ]

\* an assignment "self.<field> = v" on instance i
SelfSet(field, i, v) == [ field EXCEPT ![i] = v ]

RECURSIVE Record(_, _, _)
\* tbl, with the first token of each (type, value) of returns[k..] added
Record(tbl, returns, k) ==
  IF k > Len(returns) THEN tbl
  ELSE LET tv == << returns[k].type, returns[k].value >>
       IN  Record(IF tv \in DOMAIN tbl THEN tbl ELSE DictSet(tbl, tv, returns[k].ret),
                  returns, k + 1)

\* a caller calls secure_ai.get_or_create_mapping(entity_type, value) on instance i
GetOrCreateMapping(i, entity_type, value) ==
  /\ calls < MaxCalls
  /\ \E r \in { get_or_create_mapping(entity_mappings[i], entity_counter[i],
                                       entity_type, value) } :
     LET returns == IF r.raised THEN << >>
                    ELSE << [ type |-> entity_type, value |-> value, ret |-> r.ret ] >>
     IN  /\ entity_mappings' = SelfSet(entity_mappings, i, r.mappings)
         /\ entity_counter' = SelfSet(entity_counter, i, r.counter)
         /\ last' = [ op |-> "get", scope |-> i, type |-> entity_type, value |-> value,
                      raised |-> r.raised, ret |-> r.ret, returns |-> returns,
                      before |-> entity_mappings[i],
                      counter_before |-> entity_counter[i] ]
         /\ issued' = [ issued EXCEPT ![i] = Record(issued[i], returns, 1) ]
  /\ calls' = calls + 1
  /\ UNCHANGED << thr, svars >>

\* the call redact_content(content) on instance i; again: content is the
\* redacted_content of the call before it
Redact(i, content, again) ==
  /\ calls < MaxCalls
  /\ \E r \in { redact_content(entity_mappings[i], entity_counter[i], content) } :
         /\ entity_mappings' = SelfSet(entity_mappings, i, r.mappings)
         /\ entity_counter' = SelfSet(entity_counter, i, r.counter)
         /\ last' = [ op |-> "redact", scope |-> i, content |-> content, again |-> again,
                      raised |-> r.raised, report |-> r.report, returns |-> r.returns,
                      before |-> entity_mappings[i],
                      counter_before |-> entity_counter[i] ]
         /\ issued' = [ issued EXCEPT ![i] = Record(issued[i], r.returns, 1) ]
  /\ calls' = calls + 1
  /\ UNCHANGED << thr, svars >>

\* a caller calls secure_ai.redact_content(content) with a message
RedactContent(i, content) == Redact(i, content, FALSE)

\* a caller passes the redacted_content it got from instance i back to
\* redact_content of the same instance
RedactAgain(i) ==
  /\ last.op = "redact"
  /\ last.scope = i
  /\ ~last.raised
  /\ Redact(i, last.report.redacted_content, TRUE)

Next ==
  \/ \E i \in Scopes, a \in Lookups : GetOrCreateMapping(i, a[1], a[2])
  \/ \E i \in Scopes, c \in Texts : RedactContent(i, c)
  \/ \E i \in Scopes : RedactAgain(i)

Spec == Init /\ [][Next]_vars

(***************************************************************************)
(* Two threads in get_or_create_mapping of the same instance.  The method  *)
(* takes no lock, so the interpreter may switch threads between any two of *)
(* its statements, and between the read and the write of "+= 1".           *)
(***************************************************************************)
Shared == "s1"

\* thread t enters get_or_create_mapping(entity_type, value): line 52
ThreadCall(t, entity_type, value) ==
  /\ thr[t].pc = "idle"
  /\ thr' = [ thr EXCEPT ![t] = [ pc |-> "check", type |-> entity_type, value |-> value,
                                  key |-> MemoKey(entity_type, value) ] ]
  /\ UNCHANGED << entity_mappings, entity_counter, last, issued, calls, svars >>

\* line 54: if key not in self.entity_mappings
ThreadCheck(t) ==
  /\ thr[t].pc = "check"
  /\ thr' = [ thr EXCEPT ![t].pc =
                IF thr[t].key \notin DOMAIN entity_mappings[Shared] THEN "mask" ELSE "return" ]
  /\ UNCHANGED << entity_mappings, entity_counter, last, issued, calls, svars >>

\* lines 55-70: masked_value, from the counter as it is now
ThreadMask(t) ==
  /\ thr[t].pc = "mask"
  /\ \E mv \in { masked_value(thr[t].type, thr[t].value, entity_counter[Shared]) } :
       thr' = [ thr EXCEPT ![t] =
                  IF mv.raised THEN [ thr[t] EXCEPT !.pc = "raised" ]
                  ELSE [ pc |-> "store", type |-> thr[t].type, value |-> thr[t].value,
                         key |-> thr[t].key, masked |-> mv.val ] ]
  /\ UNCHANGED << entity_mappings, entity_counter, last, issued, calls, svars >>

\* line 72: self.entity_mappings[key] = masked_value
ThreadStore(t) ==
  /\ thr[t].pc = "store"
  /\ entity_mappings' = SelfSet(entity_mappings, Shared,
                                DictSet(entity_mappings[Shared], thr[t].key, thr[t].masked))
  /\ thr' = [ thr EXCEPT ![t].pc = "load" ]
  /\ UNCHANGED << entity_counter, last, issued, calls, svars >>

\* line 73, the read of self.entity_counter
ThreadLoad(t) ==
  /\ thr[t].pc = "load"
  /\ thr' = [ thr EXCEPT ![t] = [ pc |-> "inc", type |-> thr[t].type, value |-> thr[t].value,
                                  key |-> thr[t].key, masked |-> thr[t].masked,
                                  tmp |-> entity_counter[Shared] ] ]
  /\ UNCHANGED << entity_mappings, entity_counter, last, issued, calls, svars >>

\* line 73, the write of self.entity_counter
ThreadInc(t) ==
  /\ thr[t].pc = "inc"
  /\ entity_counter' = SelfSet(entity_counter, Shared, thr[t].tmp + 1)
  /\ thr' = [ thr EXCEPT ![t].pc = "return" ]
  /\ UNCHANGED << entity_mappings, last, issued, calls, svars >>

\* line 75: return self.entity_mappings[key]
ThreadReturn(t) ==
  /\ thr[t].pc = "return"
  /\ thr' = [ thr EXCEPT ![t] = [ pc |-> "done", type |-> thr[t].type, value |-> thr[t].value,
                                  key |-> thr[t].key,
                                  ret |-> entity_mappings[Shared][thr[t].key] ] ]
  /\ UNCHANGED << entity_mappings, entity_counter, last, issued, calls, svars >>

NextConc ==
  \/ \E t \in Threads, a \in Lookups : ThreadCall(t, a[1], a[2])
  \/ \E t \in Threads : ThreadCheck(t)
  \/ \E t \in Threads : ThreadMask(t)
  \/ \E t \in Threads : ThreadStore(t)
  \/ \E t \in Threads : ThreadLoad(t)
  \/ \E t \in Threads : ThreadInc(t)
  \/ \E t \in Threads : ThreadReturn(t)

SpecConc == Init /\ [][NextConc]_vars

(***************************************************************************)
(* The caller changes the entity_mappings dict of the report it was        *)
(* returned                                                                *)
(***************************************************************************)
\* del d[key]
DictDel(d, key) == [ k \in DOMAIN d \ { key } |-> d[k] ]

\* a key that no call of a run maps
K_other == << "o","t","h","e","r",":","x" >>

\* a token that no call of a run makes
V_other == << "?" >>

\* the caller holds the report of the last call
Holds == last.op = "redact" /\ ~last.raised

\* the dict of the report now has the given items; a dict that is the instance's
\* own object changes for the instance too
Written(items) ==
  /\ last' = [ last EXCEPT !.report.entity_mappings.items = items ]
  /\ entity_mappings' =
       IF last.report.entity_mappings.owner = "self"
       THEN SelfSet(entity_mappings, last.scope, items)
       ELSE entity_mappings
  /\ UNCHANGED << entity_counter, issued, calls, thr, svars >>

\* the caller runs result['entity_mappings'][key] = val
CallerSets(key, val) ==
  /\ Holds
  /\ key \in DOMAIN last.report.entity_mappings.items \cup { K_other }
  /\ Written(DictSet(last.report.entity_mappings.items, key, val))

\* the caller runs del result['entity_mappings'][key]
CallerDeletes(key) ==
  /\ Holds
  /\ key \in DOMAIN last.report.entity_mappings.items
  /\ Written(DictDel(last.report.entity_mappings.items, key))

\* the keys the caller writes to or deletes
CallerKeys ==
  { MemoKey(T_name, F_name), MemoKey(T_email, F_email), MemoKey(T_ssn, F_ssn), K_other }

NextCaller ==
  \/ Next
  \/ \E key \in CallerKeys : CallerSets(key, V_other)
  \/ \E key \in CallerKeys : CallerDeletes(key)

SpecCaller == Init /\ [][NextCaller]_vars

(***************************************************************************)
(* Instances that have recorded entities before the calls of a run         *)
(***************************************************************************)
\* the largest number of entries an instance holds when a run starts, plus one
MaxOrdinal == 28

\* a value of k characters
Filler(k) == [ j \in 1..k |-> "x" ]

\* the table of an instance after get_or_create_mapping('address', Filler(k))
\* for k = 1..n, from the table given by __init__
FilledMap(n) ==
  [ key \in { MemoKey(T_address, Filler(k)) : k \in 1..n }
      |-> masked_value(T_address, << >>, 1).val ]

\* the first tokens of those calls
FilledIssued(n) ==
  [ tv \in { << T_address, Filler(k) >> : k \in 1..n }
      |-> masked_value(T_address, << >>, 1).val ]

\* instance "s1" has recorded n < MaxOrdinal entities, the other instances none
InitOrdinals ==
  \E n \in 0..(MaxOrdinal - 1) :
    /\ entity_mappings = [ i \in Scopes |-> IF i = Shared THEN FilledMap(n) ELSE EmptyMap ]
    /\ entity_counter = [ i \in Scopes |-> IF i = Shared THEN n + 1 ELSE 1 ]
    /\ issued = [ i \in Scopes |-> IF i = Shared THEN FilledIssued(n) ELSE EmptyMap ]
    /\ last = [ op |-> "none" ]
    /\ calls = 0
    /\ thr = [ t \in Threads |-> Idle ]
    /\ client = [ op |-> "none" ]
    /\ active_connections = 0
    /\ gauge = 0
    /\ durations = [ e \in Endpoints |-> 0 ]
    /\ tool = [ op |-> "none" ]
    /\ service_calls = 0

NextOrdinals ==
  \E i \in Scopes, a \in Lookups : GetOrCreateMapping(i, a[1], a[2])

SpecOrdinals == InitOrdinals /\ [][NextOrdinals]_vars

(***************************************************************************)
(* The SDK client (secureai_sdk/client.py, class SecureAI).  The service    *)
(* it talks to is reached over HTTP: what the transport does and the JSON   *)
(* object the service answers with are inputs of a call.                    *)
(***************************************************************************)
\* a JSON member that the object does not have; dict.get then gives None
Missing == "missing"

\* "not text or not text.strip()": text is empty or white space only
IsBlank(text) == \A k \in DOMAIN text : text[k] \in SpaceChars

\* the truth value Python gives to response.get("success")
Truthy(v) == v \notin { Missing, "null", "false" }

\* what session.get / session.post, raise_for_status and response.json() do
Transports == { "ok", "request_exception", "json_decode_error" }

\* the JSON objects the service answers with
Responses ==
  { "true", "false", "null", Missing } \X { "text", Missing } \X { "masked", Missing }

\* the members (success, content_type, redacted_content) of the JSON object a
Response(a) == [ success |-> a[1], content_type |-> a[2], redacted_content |-> a[3] ]

\* the answers the transport can give: a JSON object, or none
Answers(transport) ==
  IF transport = "ok" THEN Responses ELSE { << Missing, Missing, Missing >> }

\* a call that returned value, having sent the requests in sent
Returns(value, sent) == [ kind |-> "returned", exc |-> "none", value |-> value, sent |-> sent ]

\* a call that raised the exception exc about the value about (the value its
\* message names), having sent the requests in sent; it returned nothing
Raises(exc, about, sent) == [ kind |-> "raised", exc |-> exc, about |-> about, sent |-> sent ]

\* SecureAI._make_request: the request is sent, then the transport's failures
\* become APIError
make_request(method, data, transport, response) ==
  IF method \notin { "GET", "POST" } THEN Raises("ValidationError", method, << >>)
  ELSE IF transport # "ok" THEN Raises("APIError", transport, << data >>)
  ELSE Returns(response, << data >>)

\* RedactionResult(**response): success and content_type are required fields
RedactionResult(response, sent) ==
  IF response.success = Missing \/ response.content_type = Missing
  THEN Raises("pydantic.ValidationError", response, sent)
  ELSE Returns(response, sent)

\* lines 139-142 with every response taken for a success
Checked_NoSuccessTest(r) ==
  IF r.kind = "raised" THEN r
  ELSE RedactionResult(r.value, r.sent)

\* lines 139-142 of redact_text and 176-179 of redact_file, r being what
\* _make_request did
Checked(r) ==
  IF r.kind = "raised" THEN r
  ELSE IF ~Truthy(r.value.success) THEN Raises("ProcessingError", r.value, r.sent)
  ELSE RedactionResult(r.value, r.sent)

\* redact_text without the test of lines 126-127
redact_text_NoValidation(text, transport, response) ==
  Checked(make_request("POST", [ content_type |-> "text", text |-> text ],
                       transport, response))

\* SecureAI.redact_text(text)
redact_text(text, transport, response) ==
  IF IsBlank(text) THEN Raises("ValidationError", text, << >>)
  ELSE Checked(make_request("POST", [ content_type |-> "text", text |-> text ],
                            transport, response))

Ext_pdf == << ".","p","d","f" >>

Ext_PDF == << ".","P","D","F" >>

Ext_py == << ".","p","y" >>

Ext_txt == << ".","t","x","t" >>

\* the code extensions of _get_content_type and redact_code
CodeExtensions ==
  { Ext_py, << ".","j","s" >>, << ".","j","a","v","a" >>, << ".","c","p","p" >>,
    << ".","c" >>, << ".","c","s" >>, << ".","p","h","p" >>, << ".","r","b" >>,
    << ".","g","o" >>, << ".","r","s" >>, << ".","s","w","i","f","t" >>, << ".","k","t" >> }

\* SecureAI._get_content_type, suffix being file_path.suffix
get_content_type(suffix) ==
  IF lower(suffix) = Ext_pdf THEN "pdf"
  ELSE IF lower(suffix) \in CodeExtensions THEN "code"
  ELSE "text"

\* what the file system holds at a path
PathKinds == { "absent", "directory", "file" }

\* the file paths given to the client: the suffix and what is at the path
Paths == { Ext_pdf, Ext_PDF, Ext_py, Ext_txt } \X PathKinds

\* the path p: its suffix and what the file system holds there
Path(p) == [ suffix |-> p[1], kind |-> p[2] ]

\* SecureAI.redact_file(file_path)
redact_file(path, transport, response) ==
  IF path.kind = "absent" THEN Raises("ValidationError", path, << >>)
  ELSE IF path.kind # "file" THEN Raises("ValidationError", path, << >>)
  ELSE Checked(make_request("POST", [ content_type |-> get_content_type(path.suffix),
                                      file_path |-> path ],
                            transport, response))

\* SecureAI.redact_pdf(file_path)
redact_pdf(path, transport, response) ==
  IF lower(path.suffix) # Ext_pdf THEN Raises("ValidationError", path, << >>)
  ELSE redact_file(path, transport, response)

\* SecureAI.redact_code(file_path)
redact_code(path, transport, response) ==
  IF lower(path.suffix) \notin CodeExtensions THEN Raises("ValidationError", path, << >>)
  ELSE redact_file(path, transport, response)

\* the number of client and tool calls made in one run
MaxServiceCalls == 2

\* the texts given to the client
ClientTexts == { << >>, F_blank, F_name }

\* a call of the client: op with argument arg did out, the service answering
\* response over transport
ClientCall(op, arg, transport, response, out) ==
  /\ client' = [ op |-> op, arg |-> arg, transport |-> transport,
                 response |-> response, out |-> out ]
  /\ service_calls' = service_calls + 1
  /\ UNCHANGED << entity_mappings, entity_counter, last, issued, calls, thr,
                  active_connections, gauge, durations, tool >>

\* client.redact_text(text)
ClientRedactText(text, transport, a) ==
  /\ service_calls < MaxServiceCalls
  /\ ClientCall("redact_text", text, transport, Response(a),
                redact_text(text, transport, Response(a)))

\* client.redact_file(path)
ClientRedactFile(p, transport, a) ==
  /\ service_calls < MaxServiceCalls
  /\ ClientCall("redact_file", Path(p), transport, Response(a),
                redact_file(Path(p), transport, Response(a)))

\* client.redact_pdf(path)
ClientRedactPdf(p, transport, a) ==
  /\ service_calls < MaxServiceCalls
  /\ ClientCall("redact_pdf", Path(p), transport, Response(a),
                redact_pdf(Path(p), transport, Response(a)))

\* client.redact_code(path)
ClientRedactCode(p, transport, a) ==
  /\ service_calls < MaxServiceCalls
  /\ ClientCall("redact_code", Path(p), transport, Response(a),
                redact_code(Path(p), transport, Response(a)))

(***************************************************************************)
(* The MCP server (privacy_firewall_core/mcp_universal_redaction.py).  The  *)
(* tools call redact_content, get_supported_formats, get_health_response    *)
(* and get_metrics_response; what those calls return or raise is an input   *)
(* of a tool call.                                                          *)
(***************************************************************************)
\* what redact_content(params, tinfoil_llm) does: it returns a dict, returns
\* something that is not a dict, or raises
Backends ==
  { b \in { "dict", "none", "raise" } \X { "true", "false", Missing }
             \X { "text", "pdf" } \X { "masked", Missing } :
      b[1] = "dict" \/ (b[2] = Missing /\ b[3] = "text" /\ b[4] = Missing) }

\* the outcome b of redact_content: for a dict, its members
Backend(b) ==
  IF b[1] = "dict"
  THEN [ kind |-> b[1], success |-> b[2], content_type |-> b[3], redacted_content |-> b[4] ]
  ELSE [ kind |-> b[1] ]

\* the params of a tool call: a string, or a dict with or without content_type
Params == { << "str", Missing >>, << "dict", Missing >>, << "dict", "pdf" >> }

\* the params p
Param(p) == [ kind |-> p[1], content_type |-> p[2] ]

\* {"success": False, "error": f"<message>: {str(e)}"}, e being the exception
Failure(message, e) == [ kind |-> "dict", success |-> "false", error |-> << message, e >> ]

\* record_request_duration(endpoint, duration): one more observation
record_request_duration(obs, endpoint) ==
  [ obs EXCEPT ![endpoint] = @ + 1 ]

\* the exception raised in the try statement of process_content
Raised(backend) ==
  IF backend.kind = "raise" THEN "raised by redact_content" ELSE "AttributeError"

\* the try statement of process_content without its except clause: the
\* exception leaves the tool
process_content_try_NoExcept(obs, backend) ==
  IF backend.kind = "raise"
  THEN [ result |-> [ kind |-> "exception", exc |-> Raised(backend) ], caught |-> FALSE,
         durations |-> obs ]
  ELSE IF backend.kind # "dict"
  THEN [ result |-> [ kind |-> "exception", exc |-> Raised(backend) ], caught |-> FALSE,
         durations |-> record_request_duration(obs, "/redact_content") ]
  ELSE [ result |-> backend, caught |-> FALSE,
         durations |-> record_request_duration(obs, "/redact_content") ]

\* the try statement of process_content, lines 44-98: the dict returned, the
\* observations after it, and whether the except clause ran
process_content_try(obs, backend) ==
  IF backend.kind = "raise"
  THEN [ result |-> Failure("Error processing content", Raised(backend)), caught |-> TRUE,
         durations |-> record_request_duration(obs, "/redact_content") ]
  ELSE IF backend.kind # "dict"
  THEN [ result |-> Failure("Error processing content", Raised(backend)), caught |-> TRUE,
         durations |-> record_request_duration(
                         record_request_duration(obs, "/redact_content"),
                         "/redact_content") ]
  ELSE [ result |-> backend, caught |-> FALSE,
         durations |-> record_request_duration(obs, "/redact_content") ]

\* process_code / process_text: the params handed on to process_content
WithContentType(params, content_type) ==
  IF params.kind = "str" THEN [ kind |-> "dict", content_type |-> content_type ]
  ELSE [ params EXCEPT !.content_type = content_type ]

\* the try statement of get_formats, health_check and get_metrics: the call
\* in its body raises (got = "raise"), or the tool returns value
tool_try(obs, endpoint, got, value, message) ==
  [ result |-> IF got = "raise" THEN Failure(message, got) ELSE value,
    caught |-> (got = "raise"),
    durations |-> record_request_duration(obs, endpoint) ]

\* a tool call from entry to the end of its finally block: r is what its try
\* statement did
ToolCall(op, params, backend, r) ==
  /\ active_connections' = (active_connections + 1) - 1
  /\ gauge' = (active_connections + 1) - 1
  /\ durations' = r.durations
  /\ tool' = [ op |-> op, params |-> params, backend |-> backend,
               result |-> r.result, caught |-> r.caught,
               connections_before |-> active_connections,
               durations_before |-> durations ]
  /\ service_calls' = service_calls + 1
  /\ UNCHANGED << entity_mappings, entity_counter, last, issued, calls, thr, client >>

\* the tool redact_content
ProcessContent(p, b) ==
  /\ service_calls < MaxServiceCalls
  /\ ToolCall("process_content", Param(p), Backend(b),
              process_content_try(durations, Backend(b)))

\* the tool redact_pdf
ProcessPdf(p, b) ==
  /\ service_calls < MaxServiceCalls
  /\ ToolCall("process_pdf", Param(p), Backend(b),
              process_content_try(durations, Backend(b)))

\* the tool redact_code
ProcessCode(p, b) ==
  /\ service_calls < MaxServiceCalls
  /\ ToolCall("process_code", WithContentType(Param(p), "code"), Backend(b),
              process_content_try(durations, Backend(b)))

\* the tool redact_text
ProcessText(p, b) ==
  /\ service_calls < MaxServiceCalls
  /\ ToolCall("process_text", WithContentType(Param(p), "text"), Backend(b),
              process_content_try(durations, Backend(b)))

NoParams == [ kind |-> "none" ]

\* the tool get_supported_formats; got: what get_supported_formats() returns
GetFormats(got) ==
  /\ service_calls < MaxServiceCalls
  /\ ToolCall("get_formats", NoParams, [ kind |-> got ],
              tool_try(durations, "/get_supported_formats", got,
                       [ kind |-> "dict", success |-> "true", supported_formats |-> got ],
                       "Error getting supported formats"))

\* the tool health_check; got: the status in what get_health_response() returns
HealthCheck(got) ==
  /\ service_calls < MaxServiceCalls
  /\ ToolCall("health_check", NoParams, [ kind |-> got ],
              tool_try(durations, "/health_check", got,
                       [ kind |-> "dict", status |-> got ],
                       "Error during health check"))

\* the tool get_metrics; got: what get_metrics_response() returns
GetMetrics(got) ==
  /\ service_calls < MaxServiceCalls
  /\ ToolCall("get_metrics", NoParams, [ kind |-> got ],
              tool_try(durations, "/get_metrics", got,
                       [ kind |-> "dict", success |-> "true", metrics |-> got,
                         content_type |-> "text/plain" ],
                       "Error getting metrics"))

NextService ==
  \/ \E text \in ClientTexts, tr \in Transports : \E a \in Answers(tr) :
       ClientRedactText(text, tr, a)
  \/ \E p \in Paths, tr \in Transports : \E a \in Answers(tr) :
       ClientRedactFile(p, tr, a)
  \/ \E p \in Paths, tr \in Transports : \E a \in Answers(tr) :
       ClientRedactPdf(p, tr, a)
  \/ \E p \in Paths, tr \in Transports : \E a \in Answers(tr) :
       ClientRedactCode(p, tr, a)
  \/ \E p \in Params, b \in Backends : ProcessContent(p, b)
  \/ \E p \in Params, b \in Backends : ProcessPdf(p, b)
  \/ \E p \in Params, b \in Backends : ProcessCode(p, b)
  \/ \E p \in Params, b \in Backends : ProcessText(p, b)
  \/ \E got \in { "formats", "raise" } : GetFormats(got)
  \/ \E got \in { "healthy", "unhealthy", "raise" } : HealthCheck(got)
  \/ \E got \in { "metrics", "raise" } : GetMetrics(got)

SpecService == Init /\ [][NextService]_vars

(***************************************************************************)
(* Tool calls of the MCP server that overlap in time: each thread runs one  *)
(* tool; "active_connections += 1" and "-= 1" are a read of the global and  *)
(* a write of it, and another thread can run between the two                *)
(***************************************************************************)
\* the engine's variables and the others a tool thread never touches
idle_vars == << entity_mappings, entity_counter, last, issued, calls, client, tool, service_calls >>

\* thread t is called as the tool of endpoint; lines 39-40, 139-140: start_time
ConnEnter(t, endpoint) ==
  /\ thr[t].pc = "idle"
  /\ thr' = [ thr EXCEPT ![t] = [ pc |-> "inc_load", endpoint |-> endpoint ] ]
  /\ UNCHANGED << idle_vars, active_connections, gauge, durations >>

\* line 41: active_connections += 1, the read of the global
ConnIncLoad(t) ==
  /\ thr[t].pc = "inc_load"
  /\ thr' = [ thr EXCEPT ![t] = [ pc |-> "inc_store", endpoint |-> thr[t].endpoint,
                                  tmp |-> active_connections ] ]
  /\ UNCHANGED << idle_vars, active_connections, gauge, durations >>

\* line 41: active_connections += 1, the write of the global
ConnIncStore(t) ==
  /\ thr[t].pc = "inc_store"
  /\ active_connections' = thr[t].tmp + 1
  /\ thr' = [ thr EXCEPT ![t] = [ pc |-> "gauge_in", endpoint |-> thr[t].endpoint ] ]
  /\ UNCHANGED << idle_vars, gauge, durations >>

\* line 42: update_active_connections(active_connections)
ConnGaugeIn(t) ==
  /\ thr[t].pc = "gauge_in"
  /\ gauge' = active_connections
  /\ thr' = [ thr EXCEPT ![t].pc = "try" ]
  /\ UNCHANGED << idle_vars, active_connections, durations >>

\* the observations after the try statement of the tool of endpoint
TryDurations(endpoint) ==
  IF endpoint = "/redact_content"
  THEN { process_content_try(durations, Backend(b)).durations : b \in Backends }
  ELSE { record_request_duration(durations, endpoint) }

\* the try statement with its except clause, lines 44-98
ConnTry(t) ==
  /\ thr[t].pc = "try"
  /\ \E obs \in TryDurations(thr[t].endpoint) : durations' = obs
  /\ thr' = [ thr EXCEPT ![t].pc = "dec_load" ]
  /\ UNCHANGED << idle_vars, active_connections, gauge >>

\* line 100: active_connections -= 1, the read of the global
ConnDecLoad(t) ==
  /\ thr[t].pc = "dec_load"
  /\ thr' = [ thr EXCEPT ![t] = [ pc |-> "dec_store", endpoint |-> thr[t].endpoint,
                                  tmp |-> active_connections ] ]
  /\ UNCHANGED << idle_vars, active_connections, gauge, durations >>

\* line 100: active_connections -= 1, the write of the global
ConnDecStore(t) ==
  /\ thr[t].pc = "dec_store"
  /\ active_connections' = thr[t].tmp - 1
  /\ thr' = [ thr EXCEPT ![t] = [ pc |-> "gauge_out", endpoint |-> thr[t].endpoint ] ]
  /\ UNCHANGED << idle_vars, gauge, durations >>

\* line 101: update_active_connections(active_connections), and the return
ConnGaugeOut(t) ==
  /\ thr[t].pc = "gauge_out"
  /\ gauge' = active_connections
  /\ thr' = [ thr EXCEPT ![t].pc = "done" ]
  /\ UNCHANGED << idle_vars, active_connections, durations >>

NextTools ==
  \/ \E t \in Threads, endpoint \in Endpoints : ConnEnter(t, endpoint)
  \/ \E t \in Threads : ConnIncLoad(t)
  \/ \E t \in Threads : ConnIncStore(t)
  \/ \E t \in Threads : ConnGaugeIn(t)
  \/ \E t \in Threads : ConnTry(t)
  \/ \E t \in Threads : ConnDecLoad(t)
  \/ \E t \in Threads : ConnDecStore(t)
  \/ \E t \in Threads : ConnGaugeOut(t)

SpecTools == Init /\ [][NextTools]_vars

(***************************************************************************)
(* Properties                                                              *)
(***************************************************************************)
Called == last.op # "none"

HasReport == last.op = "redact" /\ ~last.raised

\* whether sub occurs in s
Contains(s, sub) == Occurrences(s, sub) # {}

IsNameKey(k) == Prefix(k, Len(T_name) + 1) = T_name \o << ":" >>

\* whether the spans of entities a and b intersect
Intersect(a, b) == a.start < b.end /\ b.start < a.end

SpanLen(e) == e.end - e.start

RECURSIVE SpliceFrom(_, _, _, _)
\* content from index i on, with the span of each entity replaced by the token
\* returned for it (tokens[k].ret for entities[k]), computed from the offsets in
\* content; for entities with pairwise disjoint spans
SpliceFrom(content, entities, tokens, i) ==
  LET next == { k \in DOMAIN entities : entities[k].start >= i }
  IN  IF next = {} THEN From(content, i)
      ELSE LET k == CHOOSE x \in next : \A y \in next : entities[x].start <= entities[y].start
           IN  SubSeq(content, i, entities[k].start - 1) \o tokens[k].ret
               \o SpliceFrom(content, entities, tokens, entities[k].end)

\* C1: on one instance, every get_or_create_mapping call for a (type, value)
\* returns the token that the first call for that (type, value) returned, whatever
\* was mapped in between.
C1_SameTokenEveryTime ==
  Called =>
    \A k \in DOMAIN last.returns :
      last.returns[k].ret
        = issued[last.scope][<< last.returns[k].type, last.returns[k].value >>]

\* a redact_content call that first maps a new value and then returns the token
\* of a value mapped by an earlier call
C1_Witness ==
  /\ HasReport
  /\ \E j, k \in DOMAIN last.returns :
       /\ j < k
       /\ MemoKey(last.returns[j].type, last.returns[j].value) \notin DOMAIN last.before
       /\ MemoKey(last.returns[k].type, last.returns[k].value) \in DOMAIN last.before

\* C2: no call removes a key of entity_mappings or changes the token stored for it.
C2_AppendOnly ==
  [][ \A i \in Scopes : \A k \in DOMAIN entity_mappings[i] :
        /\ k \in DOMAIN entity_mappings'[i]
        /\ entity_mappings'[i][k] = entity_mappings[i][k] ]_vars

\* a call on an instance that had entries has added an entry
C2_Witness ==
  /\ Called
  /\ last.before # EmptyMap
  /\ DOMAIN last.before # DOMAIN entity_mappings[last.scope]

\* C3 as claimed: in one instance, two distinct keys never hold the same token.
C3_TokensDistinct ==
  \A i \in Scopes : \A k1, k2 \in DOMAIN entity_mappings[i] :
    k1 # k2 => entity_mappings[i][k1] # entity_mappings[i][k2]

\* C3 as amended: in one instance whose calls run one after the other, two
\* distinct keys of type name never hold the same token.
C3_NameTokensDistinct ==
  \A i \in Scopes : \A k1, k2 \in DOMAIN entity_mappings[i] :
    (k1 # k2 /\ IsNameKey(k1) /\ IsNameKey(k2))
      => entity_mappings[i][k1] # entity_mappings[i][k2]

\* an instance holds two name keys
C3_Witness ==
  \E i \in Scopes : \E k1, k2 \in DOMAIN entity_mappings[i] :
    k1 # k2 /\ IsNameKey(k1) /\ IsNameKey(k2)

\* C4: two interleaved get_or_create_mapping calls on one instance for the same
\* (type, value) return the same token.
C4_SameTokenBothThreads ==
  \A t1, t2 \in Threads :
    (thr[t1].pc = "done" /\ thr[t2].pc = "done" /\ thr[t1].key = thr[t2].key)
      => thr[t1].ret = thr[t2].ret

\* C5: a call on one instance leaves entity_mappings and entity_counter of every
\* other instance unchanged.
C5_ScopesIsolated ==
  [][ last'.op # "none" =>
        \A i \in Scopes :
          i # last'.scope =>
            /\ entity_mappings'[i] = entity_mappings[i]
            /\ entity_counter'[i] = entity_counter[i] ]_vars

\* a call has added entries to one instance while another instance holds entries
C5_Witness ==
  /\ Called
  /\ entity_mappings[last.scope] # last.before
  /\ \E i \in Scopes : i # last.scope /\ entity_mappings[i] # EmptyMap

\* C6: the redacted_content of a report contains the (non-empty) value of none of
\* its detected entities.
C6_NoDetectedValueLeft ==
  HasReport =>
    \A k \in DOMAIN last.report.detected_entities :
      last.report.detected_entities[k].value # << >>
        => ~Contains(last.report.redacted_content, last.report.detected_entities[k].value)

\* C7: when the detected entities have pairwise disjoint spans and each value is
\* the text of its span, redacted_content is the content with each span replaced
\* by its token and every other character unchanged.
C7_SubstitutedBySpans ==
  ( /\ HasReport
    /\ \A j, k \in DOMAIN last.report.detected_entities :
         j # k => ~Intersect(last.report.detected_entities[j],
                             last.report.detected_entities[k])
    /\ \A k \in DOMAIN last.report.detected_entities :
         last.report.detected_entities[k].value
           = SubSeq(last.content, last.report.detected_entities[k].start,
                    last.report.detected_entities[k].end - 1) )
  => last.report.redacted_content
       = SpliceFrom(last.content, last.report.detected_entities, last.returns, 1)

\* C8: no two detected entities of a report cover intersecting spans.
C8_NoIntersectingSpans ==
  HasReport =>
    \A j, k \in DOMAIN last.report.detected_entities :
      j # k => ~Intersect(last.report.detected_entities[j],
                          last.report.detected_entities[k])

\* C9: of two overlapping matches of different lengths the shorter one is not in
\* the report and gets no memo entry.
C9_LongerKept ==
  HasReport =>
    \A a, b \in Range(Detected(last.content)) :
      (Intersect(a, b) /\ SpanLen(a) > SpanLen(b))
        => /\ b \notin Range(last.report.detected_entities)
           /\ MemoKey(b.type, b.value) \in DOMAIN entity_mappings[last.scope]
                => MemoKey(b.type, b.value) \in DOMAIN last.before

\* C10: redact_content on the redacted_content of the call before it detects no
\* entity and returns the text unchanged.
C10_ReRedactionIdempotent ==
  (HasReport /\ last.again) =>
    /\ last.report.detected_entities = << >>
    /\ last.report.redacted_content = last.content

\* C11: redact_content with an empty or white-space-only text raises before
\* detection: it returns no report and leaves entity_mappings and entity_counter
\* as they were.
C11_BlankTextRejected ==
  (last.op = "redact" /\ IsBlank(last.content)) =>
    /\ last.raised
    /\ entity_mappings[last.scope] = last.before
    /\ entity_counter[last.scope] = last.counter_before

\* C12: redact_text and redact_file return a RedactionResult only for a response
\* whose success is true; for a response whose success is false or missing they
\* raise ProcessingError and return nothing; a tool call of process_content in
\* which an exception was raised returns success False and no redacted content.
C12_FailedCallNoContent ==
  /\ client.op \in { "redact_text", "redact_file" } =>
       /\ client.out.kind = "returned" =>
            (client.transport = "ok" /\ client.response.success = "true")
       /\ ( /\ client.out.sent # << >>
            /\ client.transport = "ok"
            /\ client.response.success \in { "false", Missing } )
          => /\ client.out.kind = "raised"
             /\ client.out.exc = "ProcessingError"
             /\ "value" \notin DOMAIN client.out
  /\ (tool.op = "process_content" /\ tool.caught) =>
       /\ tool.result.success = "false"
       /\ "redacted_content" \notin DOMAIN tool.result

\* the service answered redact_text with success false and a redacted text, and
\* redact_content returned no dict to process_content
C12_Witness ==
  /\ client.op = "redact_text"
  /\ client.transport = "ok"
  /\ client.response.success = "false"
  /\ client.response.redacted_content = "masked"
  /\ client.out.exc = "ProcessingError"
  /\ tool.op = "process_content"
  /\ tool.backend.kind = "none"
  /\ tool.caught

\* the name keys recorded before the j-th get_or_create_mapping call of the last
\* call: those of the table before the call and those of the calls before the j-th
NameKeysBefore(j) ==
  { k \in DOMAIN last.before : IsNameKey(k) }
    \cup { MemoKey(last.returns[i].type, last.returns[i].value) :
             i \in { i \in 1..(j - 1) : last.returns[i].type = T_name } }

\* C13: the k-th distinct person name recorded in a scope gets 'Person ' followed
\* by the k-th letter, whatever entities of other types were recorded before it.
C13_NamesInFirstSeenOrder ==
  Called =>
    \A j \in DOMAIN last.returns :
      ( /\ last.returns[j].type = T_name
        /\ MemoKey(T_name, last.returns[j].value) \notin NameKeysBefore(j) )
      => last.returns[j].ret
           = Person \o << chr(64 + Cardinality(NameKeysBefore(j)) + 1) >>

\* the types classified as high-sensitivity
HighSensitivity == { T_ssn, T_credit_card, T_api_key }

\* token shows every character of value: a prefix and a suffix of value that
\* together cover it stand at the start and at the end of token
FullyVisible(token, value) ==
  \E a, b \in 0..Len(value) :
    /\ a + b >= Len(value)
    /\ a <= Len(token) /\ b <= Len(token)
    /\ Prefix(token, a) = Prefix(value, a)
    /\ Suffix(token, b) = Suffix(value, b)

\* C14: for the types ssn, credit_card and api_key the token returned by
\* get_or_create_mapping hides at least one character of the value, for short
\* values too.
C14_HighSensitivityHidden ==
  Called =>
    \A j \in DOMAIN last.returns :
      last.returns[j].type \in HighSensitivity
        => ~FullyVisible(last.returns[j].ret, last.returns[j].value)

\* C15: get_or_create_mapping('ssn', v) returns the literal ***-**-**** for every
\* value and in every state of the scope.
C15_SsnFixedLiteral ==
  Called =>
    \A j \in DOMAIN last.returns :
      last.returns[j].type = T_ssn
        => last.returns[j].ret = << "*","*","*","-","*","*","-","*","*","*","*" >>

\* a second, different SSN has been mapped in a scope
C15_Witness ==
  /\ Called
  /\ \E j \in DOMAIN last.returns :
       /\ last.returns[j].type = T_ssn
       /\ MemoKey(T_ssn, last.returns[j].value) \notin DOMAIN last.before
       /\ \E k \in DOMAIN last.before : Prefix(k, Len(T_ssn) + 1) = T_ssn \o << ":" >>

\* C16: a get_or_create_mapping call for a phone value whose digits are those of
\* a phone value already in the table hits that entry: it adds no entry and
\* leaves entity_counter as it was.
C16_PhoneFormatsUnified ==
  ( /\ last.op = "get"
    /\ last.type = T_phone
    /\ \E k \in DOMAIN last.before :
         /\ Prefix(k, Len(T_phone) + 1) = T_phone \o << ":" >>
         /\ DigitsOf(k) = DigitsOf(last.value) )
  => /\ entity_mappings[last.scope] = last.before
     /\ entity_counter[last.scope] = last.counter_before

\* C17: two different (type, value) pairs for which get_or_create_mapping has
\* returned a token in a scope never have the same memo key.
C17_KeysCollisionFree ==
  \A i \in Scopes : \A p, q \in DOMAIN issued[i] :
    p # q => MemoKey(p[1], p[2]) # MemoKey(q[1], q[2])

\* C18: get_or_create_mapping('email', v) for a new v that does not hold
\* exactly one '@' does not raise: it returns '[EMAIL]' and stores it for the key.
C18_EmailFallback ==
  ( /\ last.op = "get"
    /\ last.type = T_email
    /\ Len(split(last.value, "@")) # 2
    /\ MemoKey(T_email, last.value) \notin DOMAIN last.before )
  => /\ ~last.raised
     /\ last.ret = << "[" >> \o upper(T_email) \o << "]" >>
     /\ MemoKey(T_email, last.value) \in DOMAIN entity_mappings[last.scope]
     /\ entity_mappings[last.scope][MemoKey(T_email, last.value)] = last.ret

RECURSIVE Letters(_)
\* the n-th ordinal in letters: A, ..., Z, AA, AB, ...
Letters(n) ==
  IF n <= 26 THEN << UpperLetters[n] >>
  ELSE Letters((n - 1) \div 26) \o << UpperLetters[((n - 1) % 26) + 1] >>

\* C19: the token of a name recorded at ordinal n is 'Person ' followed by the
\* n-th ordinal in letters: Z for 26, AA for 27, AB for 28.
C19_OrdinalsStayAlphabetic ==
  ( /\ last.op = "get"
    /\ last.type = T_name
    /\ MemoKey(T_name, last.value) \notin DOMAIN last.before )
  => last.ret = Person \o Letters(last.counter_before)

\* C20: the value of every detected entity is the whole, non-empty text of its
\* match.
C20_ValueIsFullMatch ==
  HasReport =>
    \A k \in DOMAIN last.report.detected_entities :
      /\ last.report.detected_entities[k].value # << >>
      /\ last.report.detected_entities[k].value
           = SubSeq(last.content, last.report.detected_entities[k].start,
                    last.report.detected_entities[k].end - 1)


\* the pairs of matches of two different patterns on the same span of content
IdenticalSpans(content) ==
  { p \in Range(Detected(content)) \X Range(Detected(content)) :
      p[1].type # p[2].type /\ p[1].start = p[2].start /\ p[1].end = p[2].end }

\* C21: when two patterns match the identical span, the report lists one of the
\* two matches and the call adds at most one memo entry for the span.
C21_IdenticalSpanKeptOnce ==
  HasReport =>
    \A p \in IdenticalSpans(last.content) :
      /\ ~(p[1] \in Range(last.report.detected_entities)
             /\ p[2] \in Range(last.report.detected_entities))
      /\ ~(MemoKey(p[1].type, p[1].value) \in DOMAIN entity_mappings[last.scope] \ DOMAIN last.before
             /\ MemoKey(p[2].type, p[2].value) \in DOMAIN entity_mappings[last.scope] \ DOMAIN last.before)

\* no message makes two patterns of the table match the identical span
C21_NoIdenticalSpan ==
  last.op = "redact" => IdenticalSpans(last.content) = {}

\* C22: the detected entities of a report are in ascending order of their start
\* offset in the content.
C22_AscendingStart ==
  HasReport =>
    \A j, k \in DOMAIN last.report.detected_entities :
      j < k => last.report.detected_entities[j].start
                 <= last.report.detected_entities[k].start

\* a step in which the caller changes the dict of the report
CallerStep == calls' = calls /\ last' # last /\ UNCHANGED svars

\* C23: when the caller adds, deletes or changes entries of the entity_mappings
\* of a report, the instance's entity_mappings and entity_counter stay as they
\* are, and so does what every later get_or_create_mapping call does.
C23_ReportMappingIsCopy ==
  [][ CallerStep =>
        /\ entity_mappings' = entity_mappings
        /\ entity_counter' = entity_counter
        /\ \A i \in Scopes, a \in Lookups :
             get_or_create_mapping(entity_mappings'[i], entity_counter'[i], a[1], a[2])
               = get_or_create_mapping(entity_mappings[i], entity_counter[i], a[1], a[2]) ]_vars

\* the caller has changed the dict of a report of an instance that holds entries
C23_Witness ==
  /\ HasReport
  /\ entity_mappings[last.scope] # EmptyMap
  /\ last.report.entity_mappings.items # entity_mappings[last.scope]

FileOps == { "redact_file", "redact_pdf", "redact_code" }

\* the local validations of the file operation op pass for path
LocallyValid(op, path) ==
  /\ path.kind = "file"
  /\ op = "redact_pdf" => lower(path.suffix) = Ext_pdf
  /\ op = "redact_code" => lower(path.suffix) \in CodeExtensions

\* C24: redact_text with an empty or blank text raises ValidationError and sends
\* no request; redact_file, redact_pdf and redact_code send a request only for a
\* path that passes their local validations, and raise ValidationError without
\* a request for any other path.
C24_ValidatedBeforeRequest ==
  /\ (client.op = "redact_text" /\ IsBlank(client.arg))
       => /\ client.out.kind = "raised"
          /\ client.out.exc = "ValidationError"
          /\ client.out.sent = << >>
  /\ client.op \in FileOps
       => IF LocallyValid(client.op, client.arg)
          THEN Len(client.out.sent) = 1
          ELSE /\ client.out.kind = "raised"
               /\ client.out.exc = "ValidationError"
               /\ client.out.sent = << >>

\* redact_text was called with a text of white space only
C24_Witness ==
  /\ client.op = "redact_text"
  /\ client.arg = F_blank
  /\ client.out.kind = "raised"

\* the subclasses of SecureAIError that the client raises
SecureAIErrors == { "ValidationError", "APIError", "ProcessingError" }

\* C25: every failure of a client operation reaches the caller as a subclass of
\* SecureAIError, also for a response with success true that lacks a field
\* RedactionResult requires.
C25_OnlySecureAIErrors ==
  (client.op # "none" /\ client.out.kind = "raised")
    => client.out.exc \in SecureAIErrors

\* the threads whose tool call has counted itself and has not begun its finally
\* block
InTry == { t \in Threads : thr[t].pc \in { "gauge_in", "try", "dec_load" } }

\* no thread is in the middle of "+= 1" or "-= 1"
Settled == \A t \in Threads : thr[t].pc \notin { "inc_load", "inc_store", "dec_store" }

\* C26: active_connections is never negative, is 0 when no tool call is in
\* flight, and is the number of calls in flight whenever no call is in the middle
\* of its increment or decrement, also for calls that overlap in time.
C26_ConnectionsCountCalls ==
  /\ active_connections >= 0
  /\ (\A t \in Threads : thr[t].pc \in { "idle", "done" }) => active_connections = 0
  /\ Settled => active_connections = Cardinality(InTry)

\* entity_counter is 1 plus the number of entries, in every instance
CounterCountsEntries ==
  \A i \in Scopes : entity_counter[i] = 1 + Cardinality(DOMAIN entity_mappings[i])

\* what a get_or_create_mapping call does to its instance: nothing on a hit, one
\* more entry and one more in the counter on a miss
HitOrMiss ==
  (last'.op = "get" /\ calls' = calls + 1) =>
    LET i == last'.scope
        key == MemoKey(last'.type, last'.value)
    IN  IF key \in DOMAIN entity_mappings[i]
        THEN /\ entity_mappings'[i] = entity_mappings[i]
             /\ entity_counter'[i] = entity_counter[i]
        ELSE /\ DOMAIN entity_mappings'[i] = DOMAIN entity_mappings[i] \cup { key }
             /\ entity_counter'[i] = entity_counter[i] + 1

\* C27: for an instance used sequentially, entity_counter is 1 plus the number
\* of entries in every state; a miss adds one entry and increments the counter
\* by one, a hit changes neither, and the counter never decreases.
C27_CounterTracksEntries ==
  /\ []CounterCountsEntries
  /\ [][ /\ HitOrMiss
         /\ \A i \in Scopes : entity_counter'[i] >= entity_counter[i] ]_vars

\* the part of C27 that every state of a sequential run satisfies
C27_CounterInvariant ==
  /\ []CounterCountsEntries
  /\ [][ \A i \in Scopes : entity_counter'[i] >= entity_counter[i] ]_vars

\* the tools that run process_content
ProcessOps == { "process_content", "process_pdf", "process_code", "process_text" }

\* C28: when redact_content raises, or the handling of its result raises,
\* process_content returns a dict with success False and an error message, and
\* active_connections is what it was before the call.
C28_ProcessContentNeverRaises ==
  (tool.op \in ProcessOps /\ tool.backend.kind # "dict")
    => /\ tool.result.kind = "dict"
       /\ tool.result.success = "false"
       /\ tool.result.error = << "Error processing content", Raised(tool.backend) >>
       /\ active_connections = tool.connections_before

\* redact_content raised in a process_content call
C28_Witness ==
  /\ tool.op = "process_content"
  /\ tool.backend.kind = "raise"
  /\ tool.caught

\* the endpoint under which the tool op records its duration
EndpointOf(op) ==
  CASE op \in ProcessOps -> "/redact_content"
    [] op = "get_formats" -> "/get_supported_formats"
    [] op = "health_check" -> "/health_check"
    [] op = "get_metrics" -> "/get_metrics"

\* C29: every tool call records exactly one request duration, for its endpoint,
\* also when an exception is raised after the recording of the success path.
C29_OneDurationPerCall ==
  tool.op # "none" =>
    durations = record_request_duration(tool.durations_before, EndpointOf(tool.op))


=========================================================================
